---- MODULE Spec2Model ----
(***************************************************************************)
(* Verification model of VIIRS_tiled_granules:                             *)
(*   VIIRS_filename_parsing.py  - the filename codec                       *)
(*   VIIRS_tiled_granule.py     - the granule decoder (VIIRSTiledGranule)  *)
(*   VIIRS_CMR_query.py         - the catalog query builder                *)
(* Text is modelled as a sequence of one-character strings, so that        *)
(* splitting, slicing, formatting and parsing are computed, not assumed.   *)
(***************************************************************************)
EXTENDS Integers, Sequences, FiniteSets, TLC

VARIABLES
    \* ---- filename codec ------------------------------------------------
    filename,     \* the path handed to the parse functions
    origin,       \* the values the name was built from (NoOrigin: a raw name)
    productRes,   \* outcome of parse_VIIRS_product(filename)
    dateRes,      \* outcome of parse_VIIRS_date(filename)
    tileRes,      \* outcome of parse_VIIRS_tile(filename)
    buildRes,     \* outcome of parse_VIIRS_build(filename)
    \* ---- granule decoder -----------------------------------------------
    granule,      \* the file behind the VIIRSTiledGranule: tile token, dataset
    handles,      \* number of h5py.File handles currently open
    dpc,          \* position of the running decoder call ("idle": none)
    op,           \* the method called
    blk,          \* the method whose `with` block is being executed
    args,         \* the arguments as the caller passed them
    loc,          \* fill, valid_min, valid_max, scale, offset as reassigned
    DNv,          \* the local DN
    attributes,   \* the local attributes dict
    layer,        \* the local layer
    exc,          \* exception pending inside the `with` block
    ret,          \* what the call returned or raised
    \* ---- catalog query -------------------------------------------------
    qpc,          \* position of the running VIIRS_CMR_query call
    qargs,        \* its arguments
    query,        \* the request built so far
    catalog,      \* the records as the catalog returned them
    granules,     \* the local granules
    qret          \* what the call returned or raised

codecVars == <<filename, origin, productRes, dateRes, tileRes, buildRes>>

decoderVars ==
    <<granule, handles, dpc, op, blk, args, loc, DNv, attributes, layer, exc, ret>>

queryVars == <<qpc, qargs, query, catalog, granules, qret>>

vars == <<codecVars, decoderVars, queryVars>>

(***************************************************************************)
(* Bounds                                                                  *)
(***************************************************************************)
MaxBuild == 2        \* build numbers 1..MaxBuild are used to construct names

MaxDN == 4           \* raw digital numbers range over 0..MaxDN

MaxPix == 2          \* pixels in the native array of a dataset

MaxX == 2            \* ring vertices have x in 0..MaxX

MaxY == 1            \* ring vertices have y in 0..MaxY

MaxGranules == 3     \* records in one catalog response

(***************************************************************************)
(* Text helpers                                                            *)
(***************************************************************************)
DigitChars == <<"0", "1", "2", "3", "4", "5", "6", "7", "8", "9">>

IsDigit(c) == \E i \in 1..10 : DigitChars[i] = c

DigitVal(c) == (CHOOSE i \in 1..10 : DigitChars[i] = c) - 1

AllDigits(s) == \A i \in 1..Len(s) : IsDigit(s[i])

RECURSIVE NumVal(_)
NumVal(s) ==
    IF s = <<>> THEN 0
    ELSE 10 * NumVal(SubSeq(s, 1, Len(s) - 1)) + DigitVal(s[Len(s)])

Pow10(k) == CASE k = 0 -> 1 [] k = 1 -> 10 [] k = 2 -> 100 [] k = 3 -> 1000

\* n written with exactly w digits, zero padded (w <= 4, n < 10^w)
ToDigits(n, w) == [i \in 1..w |-> DigitChars[((n \div Pow10(w - i)) % 10) + 1]]

Drop(s, k) == IF k >= Len(s) THEN <<>> ELSE SubSeq(s, k + 1, Len(s))

Take(s, k) == IF k >= Len(s) THEN s ELSE SubSeq(s, 1, k)

SetMax(S) == CHOOSE x \in S : \A y \in S : y <= x

SetMin(S) == CHOOSE x \in S : \A y \in S : x <= y

\* os.path.basename: everything after the last "/"
basename(path) ==
    LET slashes == {i \in 1..Len(path) : path[i] = "/"}
    IN  IF slashes = {} THEN path ELSE Drop(path, SetMax(slashes))

\* str.split("."): the list of tokens between dots (one more than the dots)
RECURSIVE split(_)
split(s) ==
    LET dots == {i \in 1..Len(s) : s[i] = "."}
    IN  IF dots = {} THEN <<s>>
        ELSE LET d == SetMin(dots)
             IN  <<Take(s, d - 1)>> \o split(Drop(s, d))

RECURSIVE JoinDots(_)
JoinDots(toks) ==
    IF toks = <<>> THEN <<>>
    ELSE IF Len(toks) = 1 THEN toks[1]
    ELSE toks[1] \o <<".">> \o JoinDots(Tail(toks))

(***************************************************************************)
(* Calendar                                                                *)
(***************************************************************************)
IsLeap(y) == y % 4 = 0 /\ (y % 100 # 0 \/ y % 400 = 0)

DaysInYear(y) == IF IsLeap(y) THEN 366 ELSE 365

DaysInMonth(y, m) ==
    IF m = 2 THEN (IF IsLeap(y) THEN 29 ELSE 28)
    ELSE IF m \in {4, 6, 9, 11} THEN 30 ELSE 31

RECURSIVE DaysBefore(_, _)
DaysBefore(y, m) == IF m = 1 THEN 0 ELSE DaysBefore(y, m - 1) + DaysInMonth(y, m - 1)

DayOfYear(d) == DaysBefore(d[1], d[2]) + d[3]

\* date.fromordinal((julian - 1) + date(year, 1, 1).toordinal()), julian <= 366
DateFromYJ(y, j) ==
    IF j > DaysInYear(y) THEN <<y + 1, 1, j - DaysInYear(y)>>
    ELSE LET m == CHOOSE k \in 1..12 :
                      DaysBefore(y, k) < j /\ j <= DaysBefore(y, k) + DaysInMonth(y, k)
         IN  <<y, m, j - DaysBefore(y, m)>>

(***************************************************************************)
(* Outcomes of a call: a returned value or a raised exception              *)
(***************************************************************************)
Unset(nil) == [st |-> "unset", val |-> nil, err |-> "none"]

Ok(v) == [st |-> "ok", val |-> v, err |-> "none"]

Raised(e, nil) == [st |-> "raised", val |-> nil, err |-> e]

NoDate == <<0, 0, 0>>

(***************************************************************************)
(* Python conversions used by the codec                                    *)
(***************************************************************************)
\* int(str): surrounding blanks stripped, an optional sign, then digits
RECURSIVE StripBlanks(_)
StripBlanks(s) ==
    IF s # <<>> /\ s[1] = " " THEN StripBlanks(Tail(s))
    ELSE IF s # <<>> /\ s[Len(s)] = " " THEN StripBlanks(Take(s, Len(s) - 1))
    ELSE s

PyInt(s) ==
    LET t == StripBlanks(s)
        signed == t # <<>> /\ t[1] \in {"+", "-"}
        body == IF signed THEN Tail(t) ELSE t
    IN  IF body = <<>> \/ ~AllDigits(body) THEN Raised("ValueError", 0)
        ELSE IF signed /\ t[1] = "-" THEN Ok(0 - NumVal(body))
        ELSE Ok(NumVal(body))

\* the length of the day-of-year field that the %j pattern
\*   36[0-6]|3[0-5]\d|[1-2]\d\d|0[1-9]\d|00[1-9]|[1-9]\d|0[1-9]|[1-9]
\* matches at the head of s (0: no match)
JulianMatchLen(s) ==
    IF Len(s) >= 3 /\ AllDigits(Take(s, 3)) /\ NumVal(Take(s, 3)) \in 1..366 THEN 3
    ELSE IF Len(s) >= 2 /\ AllDigits(Take(s, 2)) /\ NumVal(Take(s, 2)) \in 1..99 THEN 2
    ELSE IF Len(s) >= 1 /\ IsDigit(s[1]) /\ DigitVal(s[1]) \in 1..9 THEN 1
    ELSE 0

\* datetime.strptime(s, "%Y%j").date()
strptime_Yj(s) ==
    IF Len(s) < 4 \/ ~AllDigits(Take(s, 4)) THEN Raised("ValueError", NoDate)
    ELSE LET y == NumVal(Take(s, 4))
             rest == Drop(s, 4)
             n == JulianMatchLen(rest)
         IN  IF n = 0 THEN Raised("ValueError", NoDate)
             ELSE IF n # Len(rest) THEN Raised("ValueError", NoDate)
             ELSE IF y = 0 THEN Raised("ValueError", NoDate)
             ELSE IF y = 9999 /\ NumVal(rest) > DaysInYear(y)
                  THEN Raised("OverflowError", NoDate)
             ELSE Ok(DateFromYJ(y, NumVal(rest)))

\* list[i] with Python's zero-based index: IndexError past the end
HasToken(path, i) == Len(split(basename(path))) > i

Token(path, i) == split(basename(path))[i + 1]

(***************************************************************************)
(* VIIRS_filename_parsing.py                                               *)
(***************************************************************************)
parse_VIIRS_product(path) == Ok(Token(path, 0))

parse_VIIRS_date(path) ==
    IF ~HasToken(path, 1) THEN Raised("IndexError", NoDate)
    ELSE strptime_Yj(Drop(Token(path, 1), 1))

parse_VIIRS_tile(path) ==
    IF ~HasToken(path, 2) THEN Raised("IndexError", <<>>)
    ELSE Ok(Token(path, 2))

\* the build token taken from the whole path instead of its base name
parse_VIIRS_build_whole_path(path) ==
    IF Len(split(path)) <= 3 THEN Raised("IndexError", 0)
    ELSE PyInt(split(path)[4])

parse_VIIRS_build(path) ==
    IF ~HasToken(path, 3) THEN Raised("IndexError", 0)
    ELSE PyInt(Token(path, 3))

(***************************************************************************)
(* Filename codec: inputs                                                  *)
(***************************************************************************)
Products == {<<"V", "N", "P">>, <<"V", "J", "1", "0", "9", "G", "A">>}

Tiles == {<<"h", "1", "0", "v", "0", "5">>, <<"h", "0", "8", "v", "0", "4">>}

OriginDates ==
    {d \in {2019, 2020} \X {1, 2, 3, 5, 12} \X {1, 2, 28, 29, 31} :
        d[3] <= DaysInMonth(d[1], d[2])}

\* what follows the four fields: nothing, an extension, a production stamp
Suffixes == {<<>>, << <<"h", "5">> >>, << <<"2", "0", "7">>, <<"h", "5">> >>}

Dirs == {<<>>, <<"d", "/">>, <<"/", "d", ".", "1", "/">>}

Origins ==
    [built : {TRUE}, product : Products, date : OriginDates, tile : Tiles,
     build : 1..MaxBuild]

NoOrigin ==
    [built |-> FALSE, product |-> <<>>, date |-> NoDate, tile |-> <<>>, build |-> 0]

\* the name PRODUCT.AYYYYDDD.TILE.BUILD[...] of the grammar, under a directory
DateToken(d) == <<"A">> \o ToDigits(d[1], 4) \o ToDigits(DayOfYear(d), 3)

BuildFilename(o, dir, suffix) ==
    dir \o JoinDots(<<o.product, DateToken(o.date), o.tile, ToDigits(o.build, 3)>>
                    \o suffix)

\* names that need not follow the grammar
RawMarkers == {<<"A">>, <<"X">>, <<>>}

RawYears == {<<"2", "0", "1", "9">>, <<"2", "0", "2", "0">>, <<"0", "2", "0">>}

RawDays == {<<"1", "2", "3">>, <<"3", "6", "6">>, <<"3", "6", "7">>,
            <<"0", "0", "0">>, <<"1", "2">>, <<>>}

RawBuilds == {<<"0", "0", "1">>, <<"-", "1">>, <<" ", "2">>, <<"h", "5">>, <<>>}

RawTokenLists ==
    {<< <<"V", "N", "P">>, m \o y \o j, <<"h", "1", "0", "v", "0", "5">>, b >> :
        m \in RawMarkers, y \in RawYears, j \in RawDays, b \in RawBuilds}

RawNames ==
    {JoinDots(Take(toks, n)) : toks \in RawTokenLists, n \in 1..4}

(***************************************************************************)
(* Filename codec: state machine                                           *)
(***************************************************************************)
CodecInit ==
    /\ \/ \E o \in Origins, dir \in Dirs, suffix \in Suffixes :
              filename = BuildFilename(o, dir, suffix) /\ origin = o
       \/ \E raw \in RawNames, dir \in Dirs :
              filename = dir \o raw /\ origin = NoOrigin
    /\ productRes = Unset(<<>>)
    /\ dateRes = Unset(NoDate)
    /\ tileRes = Unset(<<>>)
    /\ buildRes = Unset(0)

ParseProduct ==
    /\ productRes.st = "unset"
    /\ productRes' = parse_VIIRS_product(filename)
    /\ UNCHANGED <<filename, origin, dateRes, tileRes, buildRes>>
    /\ UNCHANGED <<decoderVars, queryVars>>

ParseDate ==
    /\ dateRes.st = "unset"
    /\ dateRes' = parse_VIIRS_date(filename)
    /\ UNCHANGED <<filename, origin, productRes, tileRes, buildRes>>
    /\ UNCHANGED <<decoderVars, queryVars>>

ParseTile ==
    /\ tileRes.st = "unset"
    /\ tileRes' = parse_VIIRS_tile(filename)
    /\ UNCHANGED <<filename, origin, productRes, dateRes, buildRes>>
    /\ UNCHANGED <<decoderVars, queryVars>>

ParseBuild ==
    /\ buildRes.st = "unset"
    /\ buildRes' = parse_VIIRS_build(filename)
    /\ UNCHANGED <<filename, origin, productRes, dateRes, tileRes>>
    /\ UNCHANGED <<decoderVars, queryVars>>

CodecNext == ParseProduct \/ ParseDate \/ ParseTile \/ ParseBuild

(***************************************************************************)
(* Granule decoder: values                                                 *)
(***************************************************************************)
\* an optional argument: Python's None, or a value
None == [some |-> FALSE, val |-> 0]

Some(v) == [some |-> TRUE, val |-> v]

NoGeometry == [some |-> FALSE, val |-> <<>>]

\* a pixel: a number, or numpy's nan ("no data")
NaN == [nan |-> TRUE, v |-> 0]

Num(v) == [nan |-> FALSE, v |-> v]

\* a dataset attribute: absent, a number, or a value that int()/float() rejects
AttrAbsent == [present |-> FALSE, numeric |-> FALSE, val |-> 0]

AttrNum(v) == [present |-> TRUE, numeric |-> TRUE, val |-> v]

AttrBad == [present |-> TRUE, numeric |-> FALSE, val |-> 0]

RangeAbsent == [present |-> FALSE, numeric |-> FALSE, val |-> <<0, 0>>]

RangeNum(lo, hi) == [present |-> TRUE, numeric |-> TRUE, val |-> <<lo, hi>>]

RangeBad == [present |-> TRUE, numeric |-> FALSE, val |-> <<0, 0>>]

\* attributes["valid_range"][k], k zero-based
RangeItem(a, k) == [present |-> a.present, numeric |-> a.numeric, val |-> a.val[k + 1]]

\* the dict of _Fillvalue, valid_range, scale_factor, add_offset
NoAttrs ==
    [fill |-> AttrAbsent, range |-> RangeAbsent, scale |-> AttrAbsent,
     offset |-> AttrAbsent]

NoRet ==
    [st |-> "none", err |-> "none", names |-> <<>>, arr |-> <<>>, mask |-> <<>>,
     dict |-> NoAttrs]

RetNames(n) == [NoRet EXCEPT !.st = "ok", !.names = n]

RetArray(a) == [NoRet EXCEPT !.st = "ok", !.arr = a]

RetMask(m) == [NoRet EXCEPT !.st = "ok", !.mask = m]

RetDict(d) == [NoRet EXCEPT !.st = "ok", !.dict = d]

RetRaised(e) == [NoRet EXCEPT !.st = "raised", !.err = e]

(***************************************************************************)
(* Granule decoder: the file and the arguments                             *)
(***************************************************************************)
\* the one grid and the one variable the file holds, and names it lacks
FileGrid == "g1"

FileVariable == "v1"

GridArgs == {"g1", "gX"}

VariableArgs == {"v1", "vX"}

\* native arrays: every run of MaxPix consecutive digital numbers (cyclic)
Arrays == {[i \in 1..MaxPix |-> (b + i - 1) % (MaxDN + 1)] : b \in 0..MaxDN}

AttrSets ==
    [fill : {AttrAbsent, AttrNum(2)}, range : {RangeAbsent, RangeNum(1, 3)},
     scale : {AttrAbsent, AttrNum(2)}, offset : {AttrAbsent, AttrNum(1)}]

FullAttrs ==
    [fill |-> AttrNum(2), range |-> RangeNum(1, 3), scale |-> AttrNum(2),
     offset |-> AttrNum(1)]

BadAttrSets ==
    {[FullAttrs EXCEPT !.fill = AttrBad], [FullAttrs EXCEPT !.range = RangeBad],
     [FullAttrs EXCEPT !.scale = AttrBad], [FullAttrs EXCEPT !.offset = AttrBad]}

Granules ==
    [tileOK : {TRUE}, eos : {TRUE}, data : Arrays, attrs : AttrSets \cup BadAttrSets]
    \cup [tileOK : {FALSE}, eos : {TRUE}, data : {<<0, 1>>}, attrs : {FullAttrs}]
    \cup [tileOK : {TRUE}, eos : {FALSE}, data : {<<0, 1>>}, attrs : {FullAttrs}]

\* explicit overrides, each different from the attribute it overrides
FillArgs == {None, Some(3)}

MinArgs == {None, Some(2)}

MaxArgs == {None, Some(2)}

ScaleArgs == {None, Some(3)}

OffsetArgs == {None, Some(5)}

\* a target footprint, as the native pixel each target pixel is resampled
\* from; the last one lies outside the tile
TargetGeometry == [some |-> TRUE, val |-> <<2, 1, MaxPix + 1>>]

GeometryArgs == {NoGeometry, TargetGeometry}

DefaultArgs ==
    [variable |-> FileVariable, grid |-> FileGrid, fill |-> None, scale |-> None,
     offset |-> None, valid_min |-> None, valid_max |-> None,
     geometry |-> NoGeometry]

(***************************************************************************)
(* Granule decoder: array operations                                       *)
(***************************************************************************)
\* Raster(np.array(dataset))
RasterOf(data) == [i \in DOMAIN data |-> Num(data[i])]

\* Raster.to_geometry: each target pixel from its native pixel, nan outside
to_geometry(raster, g) ==
    [i \in DOMAIN g |-> IF g[i] \in DOMAIN raster THEN raster[g[i]] ELSE NaN]

\* elementwise comparisons; every comparison with nan is False
EqPix(p, x) == ~p.nan /\ p.v = x

LtPix(p, x) == ~p.nan /\ p.v < x

GtPix(p, x) == ~p.nan /\ p.v > x

\* rt.where(layer == fill, np.nan, layer)
where_eq(a, x) == [i \in DOMAIN a |-> IF EqPix(a[i], x) THEN NaN ELSE a[i]]

\* rt.where(layer < valid_min, np.nan, layer), with <= in place of <
where_le(a, x) ==
    [i \in DOMAIN a |-> IF LtPix(a[i], x) \/ EqPix(a[i], x) THEN NaN ELSE a[i]]

\* rt.where(layer < valid_min, np.nan, layer)
where_lt(a, x) == [i \in DOMAIN a |-> IF LtPix(a[i], x) THEN NaN ELSE a[i]]

\* rt.where(layer > valid_max, np.nan, layer)
where_gt(a, x) == [i \in DOMAIN a |-> IF GtPix(a[i], x) THEN NaN ELSE a[i]]

\* layer *= scale
imul(a, x) == [i \in DOMAIN a |-> IF a[i].nan THEN NaN ELSE Num(a[i].v * x)]

\* layer += offset
iadd(a, x) == [i \in DOMAIN a |-> IF a[i].nan THEN NaN ELSE Num(a[i].v + x)]

\* layer != fill
ne_mask(a, x) == [i \in DOMAIN a |-> ~EqPix(a[i], x)]

\* layer == fill
eq_mask(a, x) == [i \in DOMAIN a |-> EqPix(a[i], x)]

\* np.full(layer.shape, False)
full_false(a) == [i \in DOMAIN a |-> FALSE]

\* the attribute taken even when the caller gave a value
resolve_attribute_first(param, attr) ==
    IF attr.present THEN Some(attr.val) ELSE param

\* `if x is None and key in attributes: x = int(attributes[key])` (or float)
resolve(param, attr) ==
    IF ~param.some /\ attr.present THEN Some(attr.val) ELSE param

\* the conversion int(...) / float(...) in that statement raises
coercion_fails(param, attr) == ~param.some /\ attr.present /\ ~attr.numeric

(***************************************************************************)
(* Granule decoder: state machine                                          *)
(***************************************************************************)
NoLocals ==
    [fill |-> None, valid_min |-> None, valid_max |-> None, scale |-> None,
     offset |-> None]

\* no call is running: no frame, no locals, no result held
NoCall ==
    /\ dpc = "idle"
    /\ op = "none"
    /\ blk = "none"
    /\ args = DefaultArgs
    /\ loc = NoLocals
    /\ DNv = <<>>
    /\ attributes = NoAttrs
    /\ layer = <<>>
    /\ exc = "none"
    /\ ret = NoRet

DecoderIdle == handles = 0 /\ NoCall

DecoderInit == granule \in Granules /\ DecoderIdle

\* entry of a method: the parameters are bound, nothing is opened yet
Enter(o, b, a) ==
    /\ dpc = "idle"
    /\ op' = o
    /\ blk' = b
    /\ args' = a
    /\ loc' = [fill |-> a.fill, valid_min |-> a.valid_min, valid_max |-> a.valid_max,
               scale |-> a.scale, offset |-> a.offset]
    /\ DNv' = <<>>
    /\ attributes' = NoAttrs
    /\ layer' = <<>>
    /\ exc' = "none"
    /\ ret' = NoRet
    /\ dpc' = "open"
    /\ UNCHANGED <<granule, handles>>
    /\ UNCHANGED <<codecVars, queryVars>>

Call_grids == Enter("grids", "grids", DefaultArgs)

Call_variables ==
    \E g \in GridArgs : Enter("variables", "variables", [DefaultArgs EXCEPT !.grid = g])

Call_DN ==
    \E v \in VariableArgs, g \in GridArgs, geo \in GeometryArgs :
        Enter("DN", "DN",
              [DefaultArgs EXCEPT !.variable = v, !.grid = g, !.geometry = geo])

Call_attributes ==
    \E v \in VariableArgs, g \in GridArgs :
        Enter("attributes", "attributes",
              [DefaultArgs EXCEPT !.variable = v, !.grid = g])

Call_layer ==
    \E v \in VariableArgs, g \in GridArgs, geo \in GeometryArgs, f \in FillArgs,
       lo \in MinArgs, hi \in MaxArgs, s \in ScaleArgs, o \in OffsetArgs :
        Enter("layer", "DN",
              [variable |-> v, grid |-> g, fill |-> f, scale |-> s, offset |-> o,
               valid_min |-> lo, valid_max |-> hi, geometry |-> geo])

Call_fill ==
    \E v \in VariableArgs, g \in GridArgs, geo \in GeometryArgs, f \in FillArgs :
        Enter("fill", "DN",
              [DefaultArgs EXCEPT !.variable = v, !.grid = g, !.fill = f,
                                  !.geometry = geo])

\* the call ends: it returns a value or an exception reaches the caller
Finish(r) == dpc' = "done" /\ ret' = r

\* the caller has taken the outcome; the frame of the call is gone
Discard ==
    /\ dpc = "done"
    /\ dpc' = "idle"
    /\ op' = "none"
    /\ blk' = "none"
    /\ args' = DefaultArgs
    /\ loc' = NoLocals
    /\ DNv' = <<>>
    /\ attributes' = NoAttrs
    /\ layer' = <<>>
    /\ exc' = "none"
    /\ ret' = NoRet
    /\ UNCHANGED <<granule, handles>>
    /\ UNCHANGED <<codecVars, queryVars>>

\* `with h5py.File(self.filename_absolute, "r") as file:`
FileOpen ==
    /\ dpc = "open"
    /\ \/ /\ handles' = handles + 1
          /\ dpc' = "body"
          /\ UNCHANGED ret
       \/ /\ Finish(RetRaised("OSError"))
          /\ UNCHANGED handles
    /\ UNCHANGED <<granule, op, blk, args, loc, DNv, attributes, layer, exc>>
    /\ UNCHANGED <<codecVars, queryVars>>

DatasetFound == granule.eos /\ args.grid = FileGrid /\ args.variable = FileVariable

\* grids: `return list(file["HDFEOS/GRIDS/"].keys())`
Body_grids ==
    /\ dpc = "body" /\ blk = "grids"
    /\ IF granule.eos
       THEN exc' = "none" /\ ret' = RetNames(<<FileGrid>>)
       ELSE exc' = "KeyError" /\ UNCHANGED ret
    /\ dpc' = "exit"
    /\ UNCHANGED <<granule, handles, op, blk, args, loc, DNv, attributes, layer>>
    /\ UNCHANGED <<codecVars, queryVars>>

\* variables: `return list(file[f"HDFEOS/GRIDS/{grid}/Data Fields/"].keys())`
Body_variables ==
    /\ dpc = "body" /\ blk = "variables"
    /\ IF granule.eos /\ args.grid = FileGrid
       THEN exc' = "none" /\ ret' = RetNames(<<FileVariable>>)
       ELSE exc' = "KeyError" /\ UNCHANGED ret
    /\ dpc' = "exit"
    /\ UNCHANGED <<granule, handles, op, blk, args, loc, DNv, attributes, layer>>
    /\ UNCHANGED <<codecVars, queryVars>>

\* DN: dataset lookup, generate_modland_grid(tile=self.tile, ...), np.array
Body_DN ==
    /\ dpc = "body" /\ blk = "DN"
    /\ IF ~DatasetFound THEN exc' = "KeyError" /\ UNCHANGED DNv
       ELSE IF ~granule.tileOK THEN exc' = "IndexError" /\ UNCHANGED DNv
       ELSE exc' = "none" /\ DNv' = RasterOf(granule.data)
    /\ dpc' = "exit"
    /\ UNCHANGED <<granule, handles, op, blk, args, loc, attributes, layer, ret>>
    /\ UNCHANGED <<codecVars, queryVars>>

\* attributes: dataset lookup, `attributes = dict(dataset.attrs)`
Body_attributes ==
    /\ dpc = "body" /\ blk = "attributes"
    /\ IF ~DatasetFound THEN exc' = "KeyError" /\ UNCHANGED attributes
       ELSE exc' = "none" /\ attributes' = granule.attrs
    /\ dpc' = "exit"
    /\ UNCHANGED <<granule, handles, op, blk, args, loc, DNv, layer, ret>>
    /\ UNCHANGED <<codecVars, queryVars>>

\* the file left open when the block is left by an exception
release_unless_raised(h, e) == IF e # "none" THEN h ELSE h - 1

\* h5py.File.__exit__: the handle is closed whether or not e is pending
release(h, e) == h - 1

\* leaving the `with` block, normally or by an exception: the file is closed
FileExit ==
    /\ dpc = "exit"
    /\ handles' = release(handles, exc)
    /\ IF exc # "none"
       THEN Finish(RetRaised(exc)) /\ UNCHANGED <<blk, layer>>
       ELSE CASE blk \in {"grids", "variables"} ->
                     Finish(ret) /\ UNCHANGED <<blk, layer>>
              [] blk = "DN" ->
                     dpc' = "regrid" /\ UNCHANGED <<blk, layer, ret>>
              [] blk = "attributes" /\ op = "attributes" ->
                     Finish(RetDict(attributes)) /\ UNCHANGED <<blk, layer>>
              [] blk = "attributes" /\ op = "layer" ->
                     dpc' = "s_fill" /\ layer' = DNv /\ UNCHANGED <<blk, ret>>
              [] blk = "attributes" /\ op = "fill" ->
                     dpc' = "mask" /\ layer' = DNv /\ UNCHANGED <<blk, ret>>
    /\ UNCHANGED <<granule, op, args, loc, DNv, attributes, exc>>
    /\ UNCHANGED <<codecVars, queryVars>>

\* DN, after the block: `if geometry is not None: DN = DN.to_geometry(geometry)`,
\* `return DN`; layer and fill go on to self.attributes(...)
DN_return ==
    /\ dpc = "regrid"
    /\ LET out == IF args.geometry.some THEN to_geometry(DNv, args.geometry.val)
                  ELSE DNv
       IN  /\ DNv' = out
           /\ IF op = "DN" THEN Finish(RetArray(out)) /\ UNCHANGED blk
              ELSE dpc' = "open" /\ blk' = "attributes" /\ UNCHANGED ret
    /\ UNCHANGED <<granule, handles, op, args, loc, attributes, layer, exc>>
    /\ UNCHANGED <<codecVars, queryVars>>

\* one stage of layer(): the parameter is resolved (p), then applied if there
\* is one (out)
Stage(here, next, param, attr, newloc, out) ==
    /\ dpc = here
    /\ IF coercion_fails(param, attr)
       THEN Finish(RetRaised("TypeError")) /\ UNCHANGED <<loc, layer>>
       ELSE /\ loc' = newloc
            /\ layer' = out
            /\ IF next = "done" THEN Finish(RetArray(out))
               ELSE dpc' = next /\ UNCHANGED ret
    /\ UNCHANGED <<granule, handles, op, blk, args, DNv, attributes, exc>>
    /\ UNCHANGED <<codecVars, queryVars>>

Stage_fill ==
    LET p == resolve(loc.fill, attributes.fill)
    IN  Stage("s_fill", "s_min", loc.fill, attributes.fill,
              [loc EXCEPT !.fill = p],
              IF p.some THEN where_eq(layer, p.val) ELSE layer)

Stage_valid_min ==
    LET p == resolve(loc.valid_min, RangeItem(attributes.range, 0))
    IN  Stage("s_min", "s_max", loc.valid_min, RangeItem(attributes.range, 0),
              [loc EXCEPT !.valid_min = p],
              IF p.some THEN where_lt(layer, p.val) ELSE layer)

Stage_valid_max ==
    LET p == resolve(loc.valid_max, RangeItem(attributes.range, 1))
    IN  Stage("s_max", "s_scale", loc.valid_max, RangeItem(attributes.range, 1),
              [loc EXCEPT !.valid_max = p],
              IF p.some THEN where_gt(layer, p.val) ELSE layer)

Stage_scale ==
    LET p == resolve(loc.scale, attributes.scale)
    IN  Stage("s_scale", "s_offset", loc.scale, attributes.scale,
              [loc EXCEPT !.scale = p],
              IF p.some THEN imul(layer, p.val) ELSE layer)

Stage_offset ==
    LET p == resolve(loc.offset, attributes.offset)
    IN  Stage("s_offset", "done", loc.offset, attributes.offset,
              [loc EXCEPT !.offset = p],
              IF p.some THEN iadd(layer, p.val) ELSE layer)

\* fill(): the mask of the fill value, or all False when there is none
Mask_fill ==
    /\ dpc = "mask"
    /\ IF coercion_fails(loc.fill, attributes.fill)
       THEN Finish(RetRaised("TypeError")) /\ UNCHANGED <<loc, layer>>
       ELSE LET p == resolve(loc.fill, attributes.fill)
            IN  /\ loc' = [loc EXCEPT !.fill = p]
                /\ UNCHANGED layer
                /\ Finish(RetMask(IF p.some THEN eq_mask(layer, p.val)
                                  ELSE full_false(layer)))
    /\ UNCHANGED <<granule, handles, op, blk, args, DNv, attributes, exc>>
    /\ UNCHANGED <<codecVars, queryVars>>

DecoderNext ==
    \/ Call_grids \/ Call_variables \/ Call_DN \/ Call_attributes
    \/ Call_layer \/ Call_fill
    \/ FileOpen
    \/ Body_grids \/ Body_variables \/ Body_DN \/ Body_attributes
    \/ FileExit
    \/ DN_return
    \/ Stage_fill \/ Stage_valid_min \/ Stage_valid_max \/ Stage_scale
    \/ Stage_offset
    \/ Mask_fill
    \/ Discard

(***************************************************************************)
(* Catalog query: dates and times                                          *)
(***************************************************************************)
NoDatetime == [y |-> 0, m |-> 0, d |-> 0, H |-> 0, M |-> 0, S |-> 0, utc |-> FALSE]

Datetime(day, time, utc) ==
    [y |-> day[1], m |-> day[2], d |-> day[3], H |-> time[1], M |-> time[2],
     S |-> time[3], utc |-> utc]

\* ASCII order of the characters of a timestamp
CharOrder ==
    <<"-", ".", "0", "1", "2", "3", "4", "5", "6", "7", "8", "9", ":", "T", "Z">>

Ord(c) == CHOOSE i \in 1..Len(CharOrder) : CharOrder[i] = c

\* a <= b for Python strings: the first differing character decides
RECURSIVE StrLE(_, _)
StrLE(a, b) ==
    IF a = <<>> THEN TRUE
    ELSE IF b = <<>> THEN FALSE
    ELSE IF a[1] # b[1] THEN Ord(a[1]) < Ord(b[1])
    ELSE StrLE(Tail(a), Tail(b))

\* "YYYY-MM-DD"
DateText(y, m, d) ==
    ToDigits(y, 4) \o <<"-">> \o ToDigits(m, 2) \o <<"-">> \o ToDigits(d, 2)

\* "HH:MM:SS"
TimeText(t) ==
    ToDigits(t[1], 2) \o <<":">> \o ToDigits(t[2], 2) \o <<":">> \o ToDigits(t[3], 2)

Field(s, from, to) == SubSeq(s, from, to)

IsNumField(s, from, to) == AllDigits(Field(s, from, to))

\* dateutil.parser.parse on ISO text: a date, optionally "T" and a time,
\* optionally "Z"; anything else is rejected (ParserError)
parser_parse(s) ==
    LET dateOK ==
            /\ Len(s) >= 10
            /\ IsNumField(s, 1, 4) /\ s[5] = "-" /\ IsNumField(s, 6, 7)
            /\ s[8] = "-" /\ IsNumField(s, 9, 10)
            /\ NumVal(Field(s, 1, 4)) >= 1
            /\ NumVal(Field(s, 6, 7)) \in 1..12
            /\ NumVal(Field(s, 9, 10)) \in
                   1..DaysInMonth(NumVal(Field(s, 1, 4)), NumVal(Field(s, 6, 7)))
        timeOK ==
            /\ Len(s) >= 19
            /\ s[11] = "T"
            /\ IsNumField(s, 12, 13) /\ s[14] = ":" /\ IsNumField(s, 15, 16)
            /\ s[17] = ":" /\ IsNumField(s, 18, 19)
            /\ NumVal(Field(s, 12, 13)) <= 23
            /\ NumVal(Field(s, 15, 16)) <= 59
            /\ NumVal(Field(s, 18, 19)) <= 59
        day == <<NumVal(Field(s, 1, 4)), NumVal(Field(s, 6, 7)), NumVal(Field(s, 9, 10))>>
        time == <<NumVal(Field(s, 12, 13)), NumVal(Field(s, 15, 16)),
                  NumVal(Field(s, 18, 19))>>
    IN  IF Len(s) = 10 /\ dateOK THEN Ok(Datetime(day, <<0, 0, 0>>, FALSE))
        ELSE IF Len(s) = 19 /\ dateOK /\ timeOK THEN Ok(Datetime(day, time, FALSE))
        ELSE IF Len(s) = 20 /\ dateOK /\ timeOK /\ s[20] = "Z"
             THEN Ok(Datetime(day, time, TRUE))
        ELSE Raised("ParserError", NoDatetime)

\* strftime("%Y-%m-%d") of a date or a datetime
strftime_Ymd(dt) == DateText(dt.y, dt.m, dt.d)

\* `if isinstance(date_in, str): parser.parse(date_in) else: date_in`
as_datetime(date_in) ==
    IF date_in.kind = "str" THEN parser_parse(date_in.text)
    ELSE Ok(Datetime(date_in.day, date_in.time, FALSE))

\* the end of the day taken as its beginning
latest_datetime_midnight(date_in) ==
    LET dt == as_datetime(date_in)
    IN  IF dt.st = "raised" THEN dt
        ELSE parser_parse(strftime_Ymd(dt.val)
                          \o <<"T", "0", "0", ":", "0", "0", ":", "0", "0", "Z">>)

earliest_datetime(date_in) ==
    LET dt == as_datetime(date_in)
    IN  IF dt.st = "raised" THEN dt
        ELSE parser_parse(strftime_Ymd(dt.val)
                          \o <<"T", "0", "0", ":", "0", "0", ":", "0", "0", "Z">>)

latest_datetime(date_in) ==
    LET dt == as_datetime(date_in)
    IN  IF dt.st = "raised" THEN dt
        ELSE parser_parse(strftime_Ymd(dt.val)
                          \o <<"T", "2", "3", ":", "5", "9", ":", "5", "9", "Z">>)

\* the instant of a datetime as a tuple that orders like time
Instant(dt) == <<dt.y, dt.m, dt.d, dt.H, dt.M, dt.S>>

RECURSIVE TupleLE(_, _)
TupleLE(a, b) ==
    IF a = <<>> THEN TRUE
    ELSE IF a[1] # b[1] THEN a[1] < b[1]
    ELSE TupleLE(Tail(a), Tail(b))

(***************************************************************************)
(* Catalog query: geometry                                                 *)
(***************************************************************************)
NoTarget == [kind |-> "None", x |-> 0, y |-> 0, ring |-> <<>>]

PointTarget(p) == [kind |-> "Point", x |-> p[1], y |-> p[2], ring |-> <<>>]

\* a Polygon, by its exterior ring
PolygonTarget(r) == [kind |-> "Polygon", x |-> 0, y |-> 0, ring |-> r]

\* a RasterGeometry, by the exterior ring of its corner_polygon_latlon
RasterTarget(r) == [kind |-> "RasterGeometry", x |-> 0, y |-> 0, ring |-> r]

\* twice the signed area enclosed by a closed ring (shoelace sum)
RECURSIVE SignedArea2(_)
SignedArea2(r) ==
    IF Len(r) < 2 THEN 0
    ELSE (r[1][1] * r[2][2] - r[2][1] * r[1][2]) + SignedArea2(Tail(r))

\* LinearRing.is_ccw: whether the ring bounds a region of positive signed
\* area. For a ring that bounds no area the answer depends on the geometry
\* engine underneath; `flat` is the answer it gives then.
is_ccw(r, flat) == IF SignedArea2(r) = 0 THEN flat ELSE SignedArea2(r) > 0

\* LinearRing.reverse()
reverse(r) == [i \in 1..Len(r) |-> r[Len(r) + 1 - i]]

\* the ring reversed when it is counter-clockwise already
ccw_ring_inverted(r, flat) == IF is_ccw(r, flat) THEN reverse(r) ELSE r

\* `if not ring.is_ccw: ring = ring.reverse()`
ccw_ring(r, flat) == IF ~is_ccw(r, flat) THEN reverse(r) ELSE r

(***************************************************************************)
(* Catalog query: the request and the records                              *)
(***************************************************************************)
NoQuery ==
    [concept_id |-> <<>>, temporal |-> <<NoDatetime, NoDatetime>>,
     point |-> <<>>, polygon |-> <<>>, readable_granule_name |-> <<>>]

NoQueryArgs ==
    [concept_ID |-> <<>>,
     start_date |-> [kind |-> "date", day |-> NoDate, time |-> <<0, 0, 0>>, text |-> <<>>],
     end_date |-> [kind |-> "date", day |-> NoDate, time |-> <<0, 0, 0>>, text |-> <<>>],
     target_geometry |-> NoTarget, tile |-> <<>>]

NoQueryRet == [st |-> "none", err |-> "none", cause |-> "none", val |-> <<>>]

\* the key of the sort: granule["umm"]["TemporalExtent"]["RangeDateTime"]
\* ["BeginningDateTime"], a string
BeginningDateTime(granule_record) == granule_record.begin

\* sorted(): equal keys swapped
RECURSIVE sorted_unstable(_)
sorted_unstable(g) ==
    IF g = <<>> THEN <<>>
    ELSE LET head == sorted_unstable(SubSeq(g, 1, Len(g) - 1))
             x == g[Len(g)]
             k == Cardinality({i \in 1..Len(head) :
                      StrLE(BeginningDateTime(head[i]), BeginningDateTime(x))
                      /\ BeginningDateTime(head[i]) # BeginningDateTime(x)})
         IN  SubSeq(head, 1, k) \o <<x>> \o SubSeq(head, k + 1, Len(head))

\* sorted(granules, key=...): each record goes behind those whose key is
\* not greater, so equal keys keep their order
RECURSIVE sorted(_)
sorted(g) ==
    IF g = <<>> THEN <<>>
    ELSE LET head == sorted(SubSeq(g, 1, Len(g) - 1))
             x == g[Len(g)]
             k == Cardinality({i \in 1..Len(head) :
                      StrLE(BeginningDateTime(head[i]), BeginningDateTime(x))})
         IN  SubSeq(head, 1, k) \o <<x>> \o SubSeq(head, k + 1, Len(head))

\* the query builder's own validation (concept_id, temporal): a collection
\* concept ID starts with "C"; the window may not end before it begins
builder_rejects(concept_ID, from, to) ==
    \/ concept_ID = <<>> \/ concept_ID[1] # "C"
    \/ ~TupleLE(Instant(from), Instant(to))

(***************************************************************************)
(* Catalog query: state machine                                            *)
(***************************************************************************)
QueryIdle ==
    /\ qpc = "idle"
    /\ qargs = NoQueryArgs
    /\ query = NoQuery
    /\ catalog = <<>>
    /\ granules = <<>>
    /\ qret = NoQueryRet

QueryFinish(r) == qpc' = "done" /\ qret' = r

\* VIIRS_CMR_query, up to the request being complete
Query_build(Concepts, Starts, Ends, Targets, TileArgs) ==
    /\ qpc = "idle"
    /\ \E c \in Concepts, s \in Starts, e \in Ends, g \in Targets, t \in TileArgs,
          flat \in BOOLEAN :
         LET from == earliest_datetime(s)
             to == latest_datetime(e)
         IN  /\ qargs' = [concept_ID |-> c, start_date |-> s, end_date |-> e,
                          target_geometry |-> g, tile |-> t]
             /\ IF from.st = "raised"
                THEN QueryFinish([NoQueryRet EXCEPT !.st = "raised", !.err = from.err,
                                                    !.cause = "bad date"])
                     /\ UNCHANGED query
                ELSE IF to.st = "raised"
                THEN QueryFinish([NoQueryRet EXCEPT !.st = "raised", !.err = to.err,
                                                    !.cause = "bad date"])
                     /\ UNCHANGED query
                ELSE IF builder_rejects(c, from.val, to.val)
                THEN QueryFinish([NoQueryRet EXCEPT !.st = "raised",
                                                    !.err = "ValueError",
                                                    !.cause = "malformed query"])
                     /\ UNCHANGED query
                ELSE /\ query' =
                          [concept_id |-> c,
                           temporal |-> <<from.val, to.val>>,
                           point |-> IF g.kind = "Point" THEN <<g.x, g.y>> ELSE <<>>,
                           polygon |-> IF g.kind \in {"Polygon", "RasterGeometry"}
                                       THEN ccw_ring(g.ring, flat) ELSE <<>>,
                           readable_granule_name |->
                               IF t # <<>> THEN <<"*", ".">> \o t \o <<".", "*">>
                               ELSE <<>>]
                     /\ qpc' = "built"
                     /\ UNCHANGED qret
    /\ UNCHANGED <<catalog, granules>>
    /\ UNCHANGED <<codecVars, decoderVars>>

\* `try: granules = query.get()  except Exception as e: raise CMRServerUnreachable(e)`
Query_get(Responses, Failures) ==
    /\ qpc = "built"
    /\ \/ \E r \in Responses :
            /\ catalog' = r
            /\ granules' = r
            /\ qpc' = "got"
            /\ UNCHANGED qret
       \/ \E f \in Failures :
            /\ QueryFinish([NoQueryRet EXCEPT !.st = "raised",
                                              !.err = "CMRServerUnreachable",
                                              !.cause = f])
            /\ UNCHANGED <<catalog, granules>>
    /\ UNCHANGED <<qargs, query>>
    /\ UNCHANGED <<codecVars, decoderVars>>

\* `granules = sorted(granules, key=...)`, the log lines, `return granules`
Query_sort ==
    /\ qpc = "got"
    /\ granules' = sorted(granules)
    /\ QueryFinish([NoQueryRet EXCEPT !.st = "ok", !.val = sorted(granules)])
    /\ UNCHANGED <<qargs, query, catalog>>
    /\ UNCHANGED <<codecVars, decoderVars>>

\* the caller has taken the outcome; the frame of the call is gone
Query_discard ==
    /\ qpc = "done"
    /\ qpc' = "idle"
    /\ qargs' = NoQueryArgs
    /\ query' = NoQuery
    /\ catalog' = <<>>
    /\ granules' = <<>>
    /\ qret' = NoQueryRet
    /\ UNCHANGED <<codecVars, decoderVars>>

(***************************************************************************)
(* Catalog query: inputs                                                   *)
(***************************************************************************)
Days == {<<2020, 12, 31>>, <<2021, 1, 1>>}

Times == {<<0, 0, 0>>, <<12, 30, 15>>, <<23, 59, 59>>}

DateIn(day) == [kind |-> "date", day |-> day, time |-> <<0, 0, 0>>, text |-> <<>>]

DatetimeIn(day, time) == [kind |-> "datetime", day |-> day, time |-> time, text |-> <<>>]

StrIn(day, time, text) == [kind |-> "str", day |-> day, time |-> time, text |-> text]

DateArgs ==
    {DateIn(d) : d \in Days}
    \cup {DatetimeIn(d, t) : d \in Days, t \in Times}
    \cup {StrIn(d, <<0, 0, 0>>, DateText(d[1], d[2], d[3])) : d \in Days}
    \cup {StrIn(d, t, DateText(d[1], d[2], d[3]) \o <<"T">> \o TimeText(t)) :
             d \in Days, t \in Times}
    \cup {StrIn(d, t, DateText(d[1], d[2], d[3]) \o <<"T">> \o TimeText(t) \o <<"Z">>) :
             d \in Days, t \in Times}
    \cup {StrIn(NoDate, <<0, 0, 0>>, <<"s", "o", "o", "n">>)}

OneDate == {DateIn(<<2021, 1, 1>>)}

ConceptArgs == {<<"C", "1", "2", "3">>, <<"X", "1">>}

OneConcept == {<<"C", "1", "2", "3">>}

TileArgs == {<<>>, <<"h", "1", "0", "v", "0", "5">>}

GridPoints == (0..MaxX) \X (0..MaxY)

\* closed rings of three distinct vertices: triangles of either winding, and
\* flat rings whose vertices lie on one line
TriangleRings ==
    {<<t[1], t[2], t[3], t[1]>> :
        t \in {u \in GridPoints \X GridPoints \X GridPoints :
                  u[1] # u[2] /\ u[1] # u[3] /\ u[2] # u[3]}}

\* the corner rings of a raster over the grid, from each corner, both ways
CornerRings ==
    LET ll == <<0, 0>>
        lr == <<MaxX, 0>>
        ur == <<MaxX, MaxY>>
        ul == <<0, MaxY>>
    IN  {<<ul, ur, lr, ll, ul>>, <<ll, lr, ur, ul, ll>>, <<ur, ul, ll, lr, ur>>}

TargetArgs ==
    {NoTarget} \cup {PointTarget(p) : p \in {<<10, 20>>}}
    \cup {PolygonTarget(r) : r \in TriangleRings}
    \cup {RasterTarget(r) : r \in CornerRings}

Stamps ==
    {DateText(d[1], d[2], d[3]) \o <<"T">> \o TimeText(t) \o <<"Z">> :
        d \in Days, t \in {<<9, 0, 0>>, <<10, 0, 0>>}}

GranuleIds == 1..MaxGranules

GranuleRecords == [id : GranuleIds, begin : Stamps]

\* what the catalog may return: up to MaxGranules records, no record twice
RECURSIVE ListsOver(_, _)
ListsOver(ids, n) ==
    IF n = 0 THEN {<<>>}
    ELSE LET shorter == ListsOver(ids, n - 1)
         IN  shorter \cup
             {l \o <<r>> : l \in {s \in shorter : Len(s) = n - 1},
                           r \in {x \in GranuleRecords :
                                     x.id \in ids}}

Responses ==
    {l \in ListsOver(GranuleIds, MaxGranules) :
        \A i, j \in 1..Len(l) : i # j => l[i].id # l[j].id}

TransportFailures == {"network", "malformed query", "service error"}

(***************************************************************************)
(* Specifications: one per component, the other components at rest         *)
(***************************************************************************)
CodecAtRest ==
    /\ filename = <<>>
    /\ origin = NoOrigin
    /\ productRes = Unset(<<>>)
    /\ dateRes = Unset(NoDate)
    /\ tileRes = Unset(<<>>)
    /\ buildRes = Unset(0)

DecoderAtRest ==
    /\ granule = [tileOK |-> TRUE, eos |-> TRUE, data |-> <<0, 1>>, attrs |-> FullAttrs]
    /\ DecoderIdle

InitCodec == CodecInit /\ DecoderAtRest /\ QueryIdle

InitDecoder == DecoderInit /\ CodecAtRest /\ QueryIdle

InitQuery == QueryIdle /\ CodecAtRest /\ DecoderAtRest

SpecCodec == InitCodec /\ [][CodecNext]_vars

SpecDecoder == InitDecoder /\ [][DecoderNext]_vars

\* the temporal window: every kind of date input, no polygon
Window_build ==
    Query_build(ConceptArgs, DateArgs, DateArgs, {NoTarget, PointTarget(<<10, 20>>)},
                TileArgs)

Window_get == Query_get({<<>>}, {"network"})

WindowNext == Window_build \/ Window_get \/ Query_sort \/ Query_discard

SpecWindow == InitQuery /\ [][WindowNext]_vars

\* the spatial filter: every target geometry, one date
Winding_build == Query_build(OneConcept, OneDate, OneDate, TargetArgs, TileArgs)

Winding_get == Query_get({<<>>}, {"network"})

WindingNext == Winding_build \/ Winding_get \/ Query_sort \/ Query_discard

SpecWinding == InitQuery /\ [][WindingNext]_vars

\* the search: every catalog response and every failure
Search_build ==
    Query_build(ConceptArgs, OneDate, {DateIn(d) : d \in Days}, {NoTarget}, TileArgs)

Search_get == Query_get(Responses, TransportFailures)

SearchNext == Search_build \/ Search_get \/ Query_sort \/ Query_discard

SpecSearch == InitQuery /\ [][SearchNext]_vars

(***************************************************************************)
(* Claims about the filename codec                                         *)
(***************************************************************************)
ExampleName ==
    <<"V", "N", "P", ".", "A", "2", "0", "2", "0", "1", "2", "3", ".",
      "h", "1", "0", "v", "0", "5", ".", "0", "0", "1", ".", "h", "5">>

\* C10: a name built from (product, date, tile, build) under the grammar
\* PRODUCT.AYYYYDDD.TILE.BUILD[...], with or without a leading directory,
\* parses back to exactly those four values.
C10_RoundTrip ==
    origin.built =>
        /\ productRes.st # "unset" => productRes = Ok(origin.product)
        /\ dateRes.st # "unset" => dateRes = Ok(origin.date)
        /\ tileRes.st # "unset" => tileRes = Ok(origin.tile)
        /\ buildRes.st # "unset" => buildRes = Ok(origin.build)

\* the example of the claim, under a directory whose name holds a dot
C10_Witness ==
    /\ origin.built
    /\ filename = <<"/", "d", ".", "1", "/">> \o ExampleName
    /\ productRes = Ok(<<"V", "N", "P">>)
    /\ dateRes = Ok(<<2020, 5, 2>>)
    /\ tileRes = Ok(<<"h", "1", "0", "v", "0", "5">>)
    /\ buildRes = Ok(1)

\* the grammar of the four tokens
GrammarNameToken(t) == t # <<>>

GrammarDateToken(t) ==
    /\ Len(t) = 8
    /\ t[1] = "A"
    /\ AllDigits(Tail(t))
    /\ NumVal(SubSeq(t, 2, 5)) >= 1
    /\ NumVal(SubSeq(t, 6, 8)) \in 1..DaysInYear(NumVal(SubSeq(t, 2, 5)))

GrammarBuildToken(t) == t # <<>> /\ AllDigits(t)

TokenMatches(path, i, G(_)) == HasToken(path, i) /\ G(Token(path, i))

\* C9: a token that is missing or does not match the grammar makes its parse
\* function raise; no parse function returns a value for such a token.
C9_BadTokenRaises ==
    /\ productRes.st = "ok" => TokenMatches(filename, 0, GrammarNameToken)
    /\ dateRes.st = "ok" => TokenMatches(filename, 1, GrammarDateToken)
    /\ tileRes.st = "ok" => TokenMatches(filename, 2, GrammarNameToken)
    /\ buildRes.st = "ok" => TokenMatches(filename, 3, GrammarBuildToken)

(***************************************************************************)
(* Claims about the granule decoder                                        *)
(***************************************************************************)
LayerReturned == dpc = "done" /\ op = "layer" /\ ret.st = "ok"

MaskReturned == dpc = "done" /\ op = "fill" /\ ret.st = "ok"

\* C1: with fill, validMin, validMax, scale and offset all in effect, a raw
\* pixel p comes out as no-data if p = fill or p < validMin or p > validMax
\* (the raw number is compared, before scale and offset), and as
\* p*scale + offset otherwise; p = validMin and p = validMax survive.
C1_PipelineOrder ==
    (LayerReturned /\ loc.fill.some /\ loc.valid_min.some /\ loc.valid_max.some
        /\ loc.scale.some /\ loc.offset.some) =>
        /\ DOMAIN ret.arr = DOMAIN DNv
        /\ \A i \in DOMAIN DNv :
             LET p == DNv[i]
             IN  IF p.nan \/ p.v = loc.fill.val \/ p.v < loc.valid_min.val
                          \/ p.v > loc.valid_max.val
                 THEN ret.arr[i] = NaN
                 ELSE ret.arr[i] = Num(p.v * loc.scale.val + loc.offset.val)

\* all five in effect, a pixel equal to validMin that survives rescaled, and
\* a pixel equal to the fill value that is masked
C1_Witness ==
    /\ LayerReturned
    /\ loc.fill.some /\ loc.valid_min.some /\ loc.valid_max.some
    /\ loc.scale.some /\ loc.offset.some
    /\ \E i \in DOMAIN DNv :
         /\ ~DNv[i].nan /\ DNv[i].v = loc.valid_min.val
         /\ ret.arr[i] = Num(DNv[i].v * loc.scale.val + loc.offset.val)
    /\ \E j \in DOMAIN DNv :
         /\ ~DNv[j].nan /\ DNv[j].v = loc.fill.val /\ ret.arr[j] = NaN

\* the value in effect for a parameter: the caller's, else the attribute's
InEffect(explicit, attr) ==
    IF explicit.some THEN explicit
    ELSE IF attr.present THEN Some(attr.val)
    ELSE None

\* the pixel the pipeline must produce when stages without a value are skipped
Decoded(p, f, lo, hi, s, o) ==
    IF p.nan \/ (f.some /\ p.v = f.val) \/ (lo.some /\ p.v < lo.val)
             \/ (hi.some /\ p.v > hi.val)
    THEN NaN
    ELSE Num((IF s.some THEN p.v * s.val ELSE p.v) + (IF o.some THEN o.val ELSE 0))

\* C2: each of fill, validMin, validMax, scale, offset on its own: the
\* caller's value is used even when the attribute is present; without it the
\* attribute's; with neither the stage is skipped and changes no pixel.
C2_ExplicitWins ==
    LayerReturned =>
        LET f == InEffect(args.fill, attributes.fill)
            lo == InEffect(args.valid_min, RangeItem(attributes.range, 0))
            hi == InEffect(args.valid_max, RangeItem(attributes.range, 1))
            s == InEffect(args.scale, attributes.scale)
            o == InEffect(args.offset, attributes.offset)
        IN  /\ loc = [fill |-> f, valid_min |-> lo, valid_max |-> hi, scale |-> s,
                      offset |-> o]
            /\ ret.arr = [i \in DOMAIN DNv |-> Decoded(DNv[i], f, lo, hi, s, o)]

\* the caller's fill wins over the attribute's (a pixel equal to the
\* attribute's fill value survives), scale comes from the attribute, and
\* there is no offset at all
C2_Witness ==
    /\ LayerReturned
    /\ args.fill.some /\ attributes.fill.present
    /\ args.fill.val # attributes.fill.val
    /\ ~args.scale.some /\ attributes.scale.present
    /\ ~args.offset.some /\ ~attributes.offset.present
    /\ \E i \in DOMAIN DNv :
         /\ ~DNv[i].nan /\ DNv[i].v = attributes.fill.val
         /\ ret.arr[i] = Num(DNv[i].v * attributes.scale.val)

\* C3: once a call has returned or raised, and between calls, no file handle
\* is open.
C3_NoHandleLeft == dpc \in {"idle", "done"} => handles = 0

\* layer() failed on a missing dataset inside the `with` block of
\* attributes() or DN(), and the file is closed
C3_Witness ==
    /\ dpc = "done" /\ op = "layer"
    /\ ret.st = "raised" /\ ret.err = "KeyError"
    /\ handles = 0

\* C5: the mask has the shape of the raw array and is true exactly where the
\* raw number equals the fill value (the caller's, else the attribute's);
\* with no fill value it is all false, and that is no error.
C5_FillMask ==
    /\ MaskReturned =>
         LET f == InEffect(args.fill, attributes.fill)
         IN  /\ DOMAIN ret.mask = DOMAIN DNv
             /\ \A i \in DOMAIN DNv :
                  ret.mask[i] = (f.some /\ ~DNv[i].nan /\ DNv[i].v = f.val)
    /\ (dpc = "done" /\ op = "fill" /\ ret.st = "raised" /\ ret.err = "TypeError") =>
         (~args.fill.some /\ attributes.fill.present)

\* a mask of the attribute's fill value with a true and a false pixel
C5_Witness ==
    /\ MaskReturned
    /\ ~args.fill.some /\ attributes.fill.present
    /\ \E i, j \in DOMAIN ret.mask : ret.mask[i] /\ ~ret.mask[j]

(***************************************************************************)
(* Claims about the catalog query                                          *)
(***************************************************************************)
QueryFailed == qpc = "done" /\ qret.st = "raised"

\* C4: a failure of the query (network, malformed query, service error)
\* raised while the request is built or run reaches the caller as
\* CMRServerUnreachable and as nothing else, with no result list.
C4_SingleErrorKind ==
    (QueryFailed /\ qret.cause \in TransportFailures) =>
        (qret.err = "CMRServerUnreachable" /\ qret.val = <<>>)

QueryReturned == qpc = "done" /\ qret.st = "ok"

BeginInstant(g) == Instant(parser_parse(BeginningDateTime(g)).val)

PositionIn(l, g) == CHOOSE i \in 1..Len(l) : l[i] = g

\* C6: the records returned are the catalog's records, each once, in
\* ascending order of begin timestamp, equal timestamps in the catalog's order.
C6_StableSort ==
    QueryReturned =>
        /\ Len(qret.val) = Len(catalog)
        /\ {qret.val[i] : i \in 1..Len(qret.val)} = {catalog[i] : i \in 1..Len(catalog)}
        /\ \A i, j \in 1..Len(qret.val) :
             i < j =>
                /\ TupleLE(BeginInstant(qret.val[i]), BeginInstant(qret.val[j]))
                /\ BeginInstant(qret.val[i]) = BeginInstant(qret.val[j]) =>
                       PositionIn(catalog, qret.val[i]) < PositionIn(catalog, qret.val[j])

\* a response out of order with two records of one timestamp
C6_Witness ==
    /\ QueryReturned
    /\ Len(catalog) = 3
    /\ qret.val # catalog
    /\ catalog[1].begin = catalog[3].begin
    /\ ~StrLE(catalog[1].begin, catalog[2].begin)

HasRequest == qpc \in {"built", "got"} \/ (qpc = "done" /\ query # NoQuery)

\* C7: the window of the request begins at 00:00:00 UTC of the start date's
\* calendar day and ends at 23:59:59 UTC of the end date's calendar day,
\* whatever time of day the inputs carry.
C7_Window ==
    HasRequest =>
        query.temporal = <<Datetime(qargs.start_date.day, <<0, 0, 0>>, TRUE),
                           Datetime(qargs.end_date.day, <<23, 59, 59>>, TRUE)>>

\* start = end = D, the start given late in the day as text, the end as a
\* datetime at midday
C7_Witness ==
    /\ qpc = "built"
    /\ qargs.start_date.day = qargs.end_date.day
    /\ qargs.start_date.kind = "str" /\ qargs.start_date.time = <<23, 59, 59>>
    /\ qargs.end_date.kind = "datetime" /\ qargs.end_date.time = <<12, 30, 15>>
    /\ query.temporal[1].H = 0 /\ query.temporal[2].H = 23

HasRing == HasRequest /\ qargs.target_geometry.kind \in {"Polygon", "RasterGeometry"}

\* normalizing the ring once more changes nothing
Normalized(r) == \A flat \in BOOLEAN : ccw_ring(r, flat) = r

\* C8 as stated: the ring attached is always counter-clockwise, and
\* normalizing it again changes nothing.
C8_AlwaysCCW ==
    HasRing => (SignedArea2(query.polygon) > 0 /\ Normalized(query.polygon))

\* C8 amended: a counter-clockwise ring is attached unchanged and a clockwise
\* ring reversed; a ring that encloses an area is attached counter-clockwise
\* and normalizing it again changes nothing; no attached ring is clockwise.
C8_Winding ==
    HasRing =>
        LET r == qargs.target_geometry.ring
            out == query.polygon
        IN  /\ SignedArea2(r) > 0 => out = r
            /\ SignedArea2(r) < 0 => out = reverse(r)
            /\ SignedArea2(r) # 0 => (SignedArea2(out) > 0 /\ Normalized(out))
            /\ ~(SignedArea2(out) < 0)

\* a clockwise polygon, attached reversed
C8_Witness ==
    /\ qpc = "built"
    /\ qargs.target_geometry.kind = "Polygon"
    /\ SignedArea2(qargs.target_geometry.ring) < 0
    /\ query.polygon = reverse(qargs.target_geometry.ring)
    /\ query.polygon # qargs.target_geometry.ring

====
